---- MODULE Spec2Model ----
(***************************************************************************)
(* Model of the ph_control integration (custom_components/ph_control):     *)
(*   - PHControlSensor (sensor.py): the windowed batch detector.  Each      *)
(*     analysis cycle (update_data) pulls a window of recorder rows, finds  *)
(*     peaks and troughs per setpoint segment, matches them to oscillations *)
(*     and derives the reported attributes and state.                       *)
(*   - PHControlBinarySensor (binary_sensor.py): the subscription handler   *)
(*     tracking the current pH of the source entity.                        *)
(*                                                                          *)
(* Units.  pH values are integers in hundredths of a pH unit (8.2 = 820),   *)
(* times are integers in seconds.  Python floats are modelled by exact      *)
(* arithmetic on these integers: comparisons that are decided by binary     *)
(* rounding in the last place are outside the model.                        *)
(*                                                                          *)
(* Python None is modelled as the string NONE for string-valued fields and  *)
(* as the empty tuple <<>> for optional values (<<v>> when present).        *)
(* A state string is a tuple of one-character strings, so that float() is   *)
(* modelled by what it does to the characters.                              *)
(***************************************************************************)
EXTENDS Integers, Sequences, FiniteSets, TLC

VARIABLES
    \* ---- PHControlSensor (sensor.py) ----
    cfg,             \* setpoint, time_window, min_amplitude, noise_filter, min_duration
    state,           \* self._state
    state_history,   \* self._state_history : sequence of <<timestamp, ph_value>>
    peaks,           \* self._peaks         : sequence of <<timestamp, ph_value>>
    troughs,         \* self._troughs       : sequence of <<timestamp, ph_value>>
    oscillations,    \* self._oscillations  : sequence of oscillation records
    above_setpoint,  \* self._above_setpoint: <<>> (None) or <<BOOLEAN>>
    attributes,      \* self._attributes    : dict, a function on its keys
    last_update,     \* self._last_update   : <<>> (None) or <<time>>
    \* ---- environment of the sensor ----
    clock,           \* dt_util.utcnow(), seconds
    obs,             \* what the last cycle did and the time its metrics used
    jobs,            \* the executor's update_data jobs: position and locals
    before,          \* what the cycle before the last one did (SpecResume)
    \* ---- PHControlBinarySensor (binary_sensor.py), one per entity ----
    current_ph,      \* self._current_ph: <<>> (None) or <<value>>
    added,           \* async_added_to_hass has run: the listener is registered
    \* ---- environment of the binary sensors ----
    source,          \* hass.states.get(source_entity): <<>> (None) or <<state string>>
    event,           \* new_state of the state change event being dispatched
    pending,         \* the listeners that have not handled that event yet
    bs_raised,       \* the operation whose exception propagated in the last step
    last_numeric     \* per entity, the latest numeric reading it was given

sensor_vars == <<cfg, state, state_history, peaks, troughs, oscillations,
                 above_setpoint, attributes, last_update, clock, obs>>

bin_vars == <<current_ph, added, source, event, pending, bs_raised, last_numeric>>

vars == <<sensor_vars, jobs, before, bin_vars>>

NONE == "None"

-----------------------------------------------------------------------------
(* const.py *)

DEFAULT_SETPOINT == 820
DEFAULT_TIME_WINDOW == 300
DEFAULT_MIN_AMPLITUDE == 10
DEFAULT_NOISE_FILTER == 5
DEFAULT_MIN_DURATION == 30

ATTR_OSCILLATIONS == "oscillations"
ATTR_TREND == "trend"
\* sensor.py imports the next six names from const.py, which does not define
\* them; the keys are taken from the names and from the reported attribute set.
ATTR_AVERAGE_AMPLITUDE == "average_amplitude"
ATTR_MAX_AMPLITUDE == "max_amplitude"
ATTR_LAST_AMPLITUDE == "last_amplitude"
ATTR_LAST_PEAK == "last_peak"
ATTR_LAST_TROUGH == "last_trough"
ATTR_STATUS == "status"

\* homeassistant.const
STATE_UNKNOWN == <<"u", "n", "k", "n", "o", "w", "n">>
STATE_UNAVAILABLE == <<"u", "n", "a", "v", "a", "i", "l", "a", "b", "l", "e">>

-----------------------------------------------------------------------------
(* float(state.state): Python's float() on a string of the characters the  *)
(* model uses (digits, sign, point, blanks, letters).  Exponents, inf/nan   *)
(* and underscores are not in the modelled alphabet.  The value is in       *)
(* hundredths; digits after the second decimal are not represented.         *)

Digits == {"0", "1", "2", "3", "4", "5", "6", "7", "8", "9"}

DigitVal(c) ==
    CASE c = "0" -> 0 [] c = "1" -> 1 [] c = "2" -> 2 [] c = "3" -> 3
      [] c = "4" -> 4 [] c = "5" -> 5 [] c = "6" -> 6 [] c = "7" -> 7
      [] c = "8" -> 8 [] c = "9" -> 9

RECURSIVE Strip(_)
Strip(s) ==
    IF s # <<>> /\ Head(s) = " " THEN Strip(Tail(s))
    ELSE IF s # <<>> /\ s[Len(s)] = " " THEN Strip(SubSeq(s, 1, Len(s) - 1))
    ELSE s

RECURSIVE DecVal(_)
DecVal(ds) ==
    IF ds = <<>> THEN 0
    ELSE 10 * DecVal(SubSeq(ds, 1, Len(ds) - 1)) + DigitVal(ds[Len(ds)])

\* [ok |-> TRUE, v |-> value] or [ok |-> FALSE, v |-> 0] for a ValueError
Float(s) ==
    LET b      == Strip(s)
        signed == b # <<>> /\ Head(b) \in {"-", "+"}
        body   == IF signed THEN Tail(b) ELSE b
        dots   == {i \in DOMAIN body : body[i] = "."}
        digs   == {i \in DOMAIN body : body[i] \in Digits}
        ok     == /\ Cardinality(dots) <= 1
                  /\ digs # {}
                  /\ dots \cup digs = DOMAIN body
        dot    == IF dots = {} THEN Len(body) + 1 ELSE CHOOSE i \in dots : TRUE
        frac   == SubSeq(body, dot + 1, Len(body))
        f1     == IF Len(frac) >= 1 THEN DigitVal(frac[1]) ELSE 0
        f2     == IF Len(frac) >= 2 THEN DigitVal(frac[2]) ELSE 0
        mag    == 100 * DecVal(SubSeq(body, 1, dot - 1)) + 10 * f1 + f2
    IN  IF ok
        THEN [ok |-> TRUE, v |-> IF signed /\ Head(b) = "-" THEN 0 - mag ELSE mag]
        ELSE [ok |-> FALSE, v |-> 0]

-----------------------------------------------------------------------------
(* PHControlSensor._detect_oscillations and its helpers *)

IsAbove(ph_value, c) == ph_value > c.setpoint

\* max(segment, key=lambda x: x[1]): the first element with the largest value
MaxByValue(segment) ==
    segment[CHOOSE i \in DOMAIN segment :
               /\ \A j \in DOMAIN segment : segment[j][2] <= segment[i][2]
               /\ \A j \in 1..(i - 1) : segment[j][2] < segment[i][2]]

\* min(segment, key=lambda x: x[1]): the first element with the smallest value
MinByValue(segment) ==
    segment[CHOOSE i \in DOMAIN segment :
               /\ \A j \in DOMAIN segment : segment[j][2] >= segment[i][2]
               /\ \A j \in 1..(i - 1) : segment[j][2] > segment[i][2]]

SegmentDuration(segment) == segment[Len(segment)][1] - segment[1][1]

\* _process_peak_segment with ">=" for ">" in the amplitude test
ProcessPeakSegmentInclusive(segment, pks, c) ==
    IF Len(segment) < 2 THEN pks
    ELSE LET peak_value == MaxByValue(segment)
         IN  IF peak_value[2] - c.setpoint >= c.min_amplitude
                /\ SegmentDuration(segment) >= c.min_duration
             THEN Append(pks, peak_value)
             ELSE pks

\* the peaks list after _process_peak_segment(segment)
ProcessPeakSegment(segment, pks, c) ==
    IF Len(segment) < 2 THEN pks
    ELSE LET peak_value == MaxByValue(segment)
         IN  IF peak_value[2] - c.setpoint > c.min_amplitude
             THEN IF SegmentDuration(segment) >= c.min_duration
                  THEN Append(pks, peak_value)
                  ELSE pks
             ELSE pks

\* the troughs list after _process_trough_segment(segment)
ProcessTroughSegment(segment, trs, c) ==
    IF Len(segment) < 2 THEN trs
    ELSE LET trough_value == MinByValue(segment)
         IN  IF c.setpoint - trough_value[2] > c.min_amplitude
             THEN IF SegmentDuration(segment) >= c.min_duration
                  THEN Append(trs, trough_value)
                  ELSE trs
             ELSE trs

\* "if current_segment: if self._above_setpoint: ... else: ...".  ds.handed lists
\* the calls made so far: <<TRUE, segment>> for _process_peak_segment(segment),
\* <<FALSE, segment>> for _process_trough_segment(segment).
ProcessSegment(ds, c) ==
    IF ds.seg = <<>> THEN ds
    ELSE IF ds.above
         THEN [ds EXCEPT !.peaks = ProcessPeakSegment(ds.seg, ds.peaks, c),
                         !.handed = Append(@, <<TRUE, ds.seg>>)]
         ELSE [ds EXCEPT !.troughs = ProcessTroughSegment(ds.seg, ds.troughs, c),
                         !.handed = Append(@, <<FALSE, ds.seg>>)]

\* the for loop with "current_segment = []" at a crossing: the reading that
\* crosses the setpoint is left out of the new segment
RECURSIVE SegmentLoopDropsCrossing(_, _, _, _)
SegmentLoopDropsCrossing(hist, i, ds, c) ==
    IF i > Len(hist) THEN ds
    ELSE LET is_above == IsAbove(hist[i][2], c)
         IN  IF is_above # ds.above
             THEN SegmentLoopDropsCrossing(hist, i + 1,
                              [ProcessSegment(ds, c) EXCEPT !.seg = <<>>,
                                                            !.above = is_above], c)
             ELSE SegmentLoopDropsCrossing(hist, i + 1,
                              [ds EXCEPT !.seg = Append(@, hist[i])], c)

\* the for loop over self._state_history, from reading i on
RECURSIVE SegmentLoop(_, _, _, _)
SegmentLoop(hist, i, ds, c) ==
    IF i > Len(hist) THEN ds
    ELSE LET is_above == IsAbove(hist[i][2], c)
         IN  IF is_above # ds.above
             THEN SegmentLoop(hist, i + 1,
                              [ProcessSegment(ds, c) EXCEPT !.seg = <<hist[i]>>,
                                                            !.above = is_above], c)
             ELSE SegmentLoop(hist, i + 1, [ds EXCEPT !.seg = Append(@, hist[i])], c)

\* the loop and the trailing "if current_segment:" of _detect_oscillations on a
\* history of at least 5 readings, the lists starting as pks0 and trs0
SegmentPass(hist, pks0, trs0, c) ==
    LET start == [peaks |-> pks0, troughs |-> trs0, seg |-> <<>>,
                  above |-> IsAbove(hist[1][2], c), handed |-> <<>>]
    IN  ProcessSegment(SegmentLoop(hist, 1, start, c), c)

\* sorted(xs, key=lambda x: x[0]): a stable sort by timestamp
RECURSIVE InsertByTime(_, _)
InsertByTime(sorted, x) ==
    IF sorted = <<>> THEN <<x>>
    ELSE IF sorted[Len(sorted)][1] <= x[1] THEN Append(sorted, x)
    ELSE Append(InsertByTime(SubSeq(sorted, 1, Len(sorted) - 1), x), sorted[Len(sorted)])

RECURSIVE SortByTime(_)
SortByTime(xs) ==
    IF xs = <<>> THEN <<>>
    ELSE InsertByTime(SortByTime(SubSeq(xs, 1, Len(xs) - 1)), xs[Len(xs)])

\* the dict with the operands of the stored amplitude exchanged
OscillationSwapped(peak, next_trough) ==
    [peak_time    |-> peak[1],
     peak_value   |-> peak[2],
     trough_time  |-> next_trough[1],
     trough_value |-> next_trough[2],
     amplitude    |-> next_trough[2] - peak[2],
     duration     |-> next_trough[1] - peak[1]]

\* the dict appended for a matched peak and trough
Oscillation(peak, next_trough) ==
    [peak_time    |-> peak[1],
     peak_value   |-> peak[2],
     trough_time  |-> next_trough[1],
     trough_value |-> next_trough[2],
     amplitude    |-> peak[2] - next_trough[2],
     duration     |-> next_trough[1] - peak[1]]

\* the matching loop without "if t[0] > peak[0]": the first trough of all
RECURSIVE MatchLoopAnyTrough(_, _, _, _, _)
MatchLoopAnyTrough(sorted_peaks, sorted_troughs, i, oscs, c) ==
    IF i > Len(sorted_peaks) THEN oscs
    ELSE LET peak == sorted_peaks[i]
         IN  IF peak[2] - sorted_troughs[1][2] > c.min_amplitude
             THEN MatchLoopAnyTrough(sorted_peaks, sorted_troughs, i + 1,
                                     Append(oscs, [peak_time    |-> peak[1],
                                                   peak_value   |-> peak[2],
                                                   trough_time  |-> sorted_troughs[1][1],
                                                   trough_value |-> sorted_troughs[1][2],
                                                   amplitude    |-> peak[2] - sorted_troughs[1][2],
                                                   duration     |-> sorted_troughs[1][1] - peak[1]]), c)
             ELSE MatchLoopAnyTrough(sorted_peaks, sorted_troughs, i + 1, oscs, c)

\* the for loop of _match_oscillations, from peak i on
RECURSIVE MatchLoop(_, _, _, _, _)
MatchLoop(sorted_peaks, sorted_troughs, i, oscs, c) ==
    IF i > Len(sorted_peaks) THEN oscs
    ELSE LET peak == sorted_peaks[i]
             Later(t) == t[1] > peak[1]
             next_troughs == SelectSeq(sorted_troughs, Later)
         IN  IF next_troughs # <<>>
                /\ peak[2] - next_troughs[1][2] > c.min_amplitude
             THEN MatchLoop(sorted_peaks, sorted_troughs, i + 1,
                            Append(oscs, Oscillation(peak, next_troughs[1])), c)
             ELSE MatchLoop(sorted_peaks, sorted_troughs, i + 1, oscs, c)

\* self._oscillations after _match_oscillations (it starts from the empty list)
MatchOscillations(pks, trs, c) ==
    IF pks = <<>> \/ trs = <<>> THEN <<>>
    ELSE MatchLoop(SortByTime(pks), SortByTime(trs), 1, <<>>, c)

\* the list kept as it was: no "self._peaks = []"
ClearedListKept(xs) == xs

\* "self._peaks = []", "self._troughs = []", "self._oscillations = []"
ClearedList(xs) == <<>>

\* the list fields and _above_setpoint of a sensor just constructed
FreshSensor ==
    [peaks |-> <<>>, troughs |-> <<>>, oscillations |-> <<>>, above_setpoint |-> <<>>]

\* the fields _detect_oscillations leaves behind when it runs on a sensor whose
\* fields are `self`, with the history hist
DetectFrom(self, hist, c) ==
    LET pks0  == ClearedList(self.peaks)
        trs0  == ClearedList(self.troughs)
        oscs0 == ClearedList(self.oscillations)
    IN  IF hist = <<>> \/ Len(hist) < 5
        THEN [peaks |-> pks0, troughs |-> trs0, oscillations |-> oscs0,
              above_setpoint |-> self.above_setpoint]
        ELSE LET ds == SegmentPass(hist, pks0, trs0, c)
             IN  [peaks |-> ds.peaks, troughs |-> ds.troughs,
                  oscillations |-> oscs0 \o MatchOscillations(ds.peaks, ds.troughs, c),
                  above_setpoint |-> <<ds.above>>]

\* the fields _detect_oscillations leaves behind for the history hist, on the
\* sensor of the current state
DetectOscillations(hist, prev_above, c) ==
    DetectFrom([peaks |-> peaks, troughs |-> troughs, oscillations |-> oscillations,
                above_setpoint |-> prev_above], hist, c)

-----------------------------------------------------------------------------
(* PHControlSensor._calculate_metrics *)

\* the horizon test left out: every oscillation of the window counts
IsRecentAlways(osc, now) == TRUE

\* osc counts as recent: (now - osc["peak_time"]).total_seconds() / 3600 <= 24
IsRecent(osc, now) == now - osc.peak_time <= 24 * 3600

RECURSIVE SumAmplitudes(_)
SumAmplitudes(oscs) ==
    IF oscs = <<>> THEN 0 ELSE oscs[1].amplitude + SumAmplitudes(Tail(oscs))

MaxAmplitude(oscs) ==
    CHOOSE a \in {oscs[i].amplitude : i \in DOMAIN oscs} :
        \A i \in DOMAIN oscs : oscs[i].amplitude <= a

\* round(num / den, 2) in hundredths: to the nearest integer, ties to even
Round2(num, den) ==
    LET q == num \div den
        r == num % den
    IN  IF 2 * r < den THEN q
        ELSE IF 2 * r > den THEN q + 1
        ELSE IF q % 2 = 0 THEN q ELSE q + 1

\* datetime.isoformat(): a string that carries the timestamp
IsoFormat(t) == <<"isoformat", t>>

\* the classification with ">= 15" and ">= 5" for "> 15" and "> 5"
TrendOfInclusive(recent) ==
    LET half_idx == Len(recent) \div 2
        s1 == SumAmplitudes(SubSeq(recent, 1, half_idx))
        n1 == half_idx
        s2 == SumAmplitudes(SubSeq(recent, half_idx + 1, Len(recent)))
        n2 == Len(recent) - half_idx
        pc_num == IF s1 > 0 THEN (s2 * n1 - s1 * n2) * 100 ELSE 0
        pc_den == IF s1 > 0 THEN s1 * n2 ELSE 1
    IN  IF pc_num >= 15 * pc_den
        THEN [trend |-> "rapidly_increasing", status |-> "low"]
        ELSE IF pc_num >= 5 * pc_den
        THEN [trend |-> "increasing", status |-> "decreasing"]
        ELSE IF pc_num < (0 - 5) * pc_den
        THEN [trend |-> "decreasing", status |-> "good"]
        ELSE [trend |-> "stable", status |-> "normal"]

\* trend and status of at least two recent oscillations.  percent_change is
\* the exact fraction pc_num / pc_den, pc_den > 0.
TrendOf(recent) ==
    LET half_idx    == Len(recent) \div 2
        first_half  == SubSeq(recent, 1, half_idx)
        second_half == SubSeq(recent, half_idx + 1, Len(recent))
        \* first_avg = s1 / n1, second_avg = s2 / n2
        s1 == SumAmplitudes(first_half)
        n1 == Len(first_half)
        s2 == SumAmplitudes(second_half)
        n2 == Len(second_half)
        pc_num == IF s1 > 0 THEN (s2 * n1 - s1 * n2) * 100 ELSE 0
        pc_den == IF s1 > 0 THEN s1 * n2 ELSE 1
    IN  IF pc_num > 15 * pc_den
        THEN [trend |-> "rapidly_increasing", status |-> "low"]
        ELSE IF pc_num > 5 * pc_den
        THEN [trend |-> "increasing", status |-> "decreasing"]
        ELSE IF pc_num < (0 - 5) * pc_den
        THEN [trend |-> "decreasing", status |-> "good"]
        ELSE [trend |-> "stable", status |-> "normal"]

\* "if len(recent_oscillations) > 1: ... else: unknown"
TrendAndStatus(recent) ==
    IF Len(recent) > 1 THEN TrendOf(recent)
    ELSE [trend |-> "unknown", status |-> "unknown"]

\* the dict _calculate_metrics assigns to self._attributes
CalculateMetrics(oscs, now) ==
    LET Recent(osc) == IsRecent(osc, now)
        recent_oscillations == SelectSeq(oscs, Recent)
        n    == Len(recent_oscillations)
        last == recent_oscillations[n]
        ts   == TrendAndStatus(recent_oscillations)
    IN  IF recent_oscillations # <<>>
        THEN (ATTR_OSCILLATIONS :> n)
             @@ (ATTR_AVERAGE_AMPLITUDE :> Round2(SumAmplitudes(recent_oscillations), n))
             @@ (ATTR_MAX_AMPLITUDE :> MaxAmplitude(recent_oscillations))
             @@ (ATTR_LAST_AMPLITUDE :> last.amplitude)
             @@ (ATTR_LAST_PEAK :> IsoFormat(last.peak_time))
             @@ (ATTR_LAST_TROUGH :> IsoFormat(last.trough_time))
             @@ (ATTR_TREND :> ts.trend)
             @@ (ATTR_STATUS :> ts.status)
        ELSE (ATTR_OSCILLATIONS :> n)
             @@ (ATTR_AVERAGE_AMPLITUDE :> 0)
             @@ (ATTR_MAX_AMPLITUDE :> 0)
             @@ (ATTR_LAST_AMPLITUDE :> 0)
             @@ (ATTR_TREND :> "unknown")
             @@ (ATTR_STATUS :> "unknown")

\* dict.get(key, default)
DictGet(d, key, default) == IF key \in DOMAIN d THEN d[key] ELSE default

-----------------------------------------------------------------------------
(* PHControlSensor.update_data *)

\* history_list: the rows whose state parses as a number, as (timestamp, value)
RECURSIVE HistoryList(_)
HistoryList(rows) ==
    IF rows = <<>> THEN <<>>
    ELSE LET f == Float(rows[1].state)
         IN  IF f.ok THEN <<<<rows[1].last_updated, f.v>>>> \o HistoryList(Tail(rows))
             ELSE HistoryList(Tail(rows))

\* what the recorder query can return at end_time: rows of the source entity
\* with start_time <= last_updated <= end_time, ordered by last_updated
IsQueryResult(rows, end_time, c) ==
    LET start_time == end_time - c.time_window * 3600
    IN  /\ \A i \in DOMAIN rows :
              start_time <= rows[i].last_updated /\ rows[i].last_updated <= end_time
        /\ \A i \in 1..(Len(rows) - 1) : rows[i].last_updated <= rows[i + 1].last_updated

\* One analysis cycle that gets the rows `rows` from the recorder; the second
\* utcnow() (in _calculate_metrics) reads `elapsed` seconds after the first.
UpdateData(rows, elapsed) ==
    LET end_time     == clock
        history_list == HistoryList(rows)
        now          == clock + elapsed
        det          == DetectOscillations(history_list, above_setpoint, cfg)
        attrs        == CalculateMetrics(det.oscillations, now)
    IN  /\ IsQueryResult(rows, end_time, cfg)
        /\ clock' = now
        /\ IF history_list = <<>>
           THEN /\ state' = "unknown"
                /\ obs' = [kind |-> "empty", now |-> now]
                /\ UNCHANGED <<state_history, peaks, troughs, oscillations,
                               above_setpoint, attributes, last_update>>
           ELSE /\ state_history' = history_list
                /\ peaks' = det.peaks
                /\ troughs' = det.troughs
                /\ oscillations' = det.oscillations
                /\ above_setpoint' = det.above_setpoint
                /\ attributes' = attrs
                /\ state' = DictGet(attrs, ATTR_TREND, "unknown")
                /\ last_update' = <<now>>
                /\ obs' = [kind |-> "analysed", now |-> now]
        /\ UNCHANGED cfg

\* The recorder raises (get_instance, the session or the query): the except
\* branch of update_data.
UpdateDataError ==
    /\ state' = "unknown"
    /\ obs' = [kind |-> "error", now |-> clock]
    /\ UNCHANGED <<cfg, state_history, peaks, troughs, oscillations,
                   above_setpoint, attributes, last_update, clock>>

-----------------------------------------------------------------------------
(* The inputs of the sensor: configurations and recorder query results *)

MaxLen == 5      \* longest window of the exhaustive family
MaxWaves == 3    \* most oscillations in a wave window
MaxDirty == 2    \* longest window of the family with non-numeric rows
MaxClock == 1    \* the clock stops advancing here

\* PHControlSensor.__init__ arguments, as async_setup_entry passes them
Config(time_window, min_amplitude, min_duration) ==
    [setpoint      |-> DEFAULT_SETPOINT,
     time_window   |-> time_window,
     min_amplitude |-> min_amplitude,
     noise_filter  |-> DEFAULT_NOISE_FILTER,
     min_duration  |-> min_duration]

Configs ==
    {Config(DEFAULT_TIME_WINDOW, ma, md) :
        ma \in {DEFAULT_MIN_AMPLITUDE, 2 * DEFAULT_MIN_AMPLITUDE},
        md \in {0, DEFAULT_MIN_DURATION}}
    \cup {Config(24, DEFAULT_MIN_AMPLITUDE, DEFAULT_MIN_DURATION)}

\* state strings of the source entity
PH_794 == <<"7", ".", "9", "4">>
PH_800 == <<"8", ".", "0">>
PH_820 == <<"8", ".", "2">>
PH_830 == <<"8", ".", "3">>
PH_840 == <<"8", ".", "4">>
PH_842 == <<"8", ".", "4", "2">>
NumStates == {PH_800, PH_820, PH_830, PH_840}
Gaps == {15, 30}
Elapsed == {0, 1}

Row(t, st) == [last_updated |-> t, state |-> st]

RECURSIVE SumFrom(_, _)
SumFrom(gaps, i) == IF i > Len(gaps) THEN 0 ELSE gaps[i] + SumFrom(gaps, i + 1)

\* rows with the states sts, gaps[i] seconds between row i and row i+1, the
\* last row at time last
MkRows(sts, gaps, last) ==
    [i \in 1..Len(sts) |-> Row(last - SumFrom(gaps, i), sts[i])]

\* every window of up to MaxLen numeric rows over the states sts and gaps gs
ShortRowsOf(end, states, gs) ==
    UNION {{MkRows(sts, gaps, end) :
               sts \in [1..n -> states], gaps \in [1..(n - 1) -> gs]} :
           n \in 0..MaxLen}

\* evenly spaced windows over four values, unevenly spaced ones over two
ShortRows(end) ==
    ShortRowsOf(end, NumStates, {30}) \cup ShortRowsOf(end, {PH_800, PH_840}, Gaps)

\* n swings, each two rows at a peak value and two rows at a trough value, 30 s
\* apart; with `old` the first swing lies a day before the rest
WaveStates(pts) ==
    [i \in 1..(4 * Len(pts)) |->
        IF (i - 1) % 4 < 2 THEN pts[(i - 1) \div 4 + 1][1] ELSE pts[(i - 1) \div 4 + 1][2]]

WaveGaps(n, old) ==
    [i \in 1..(4 * n - 1) |-> IF old /\ i = 4 THEN 24 * 3600 - 180 ELSE 30]

WaveRowsOf(end, pkStates, trStates, most) ==
    UNION {{MkRows(WaveStates(pts), WaveGaps(n, old), end) :
               pts \in [1..n -> pkStates \X trStates], old \in BOOLEAN} :
           n \in 1..most}

WaveRows(end) == WaveRowsOf(end, {PH_840, PH_842}, {PH_800, PH_794}, MaxWaves)

\* windows with rows whose state is not a number
DirtyStates == {PH_840, STATE_UNAVAILABLE, <<"a", "b", "c">>}

DirtyRows(end) ==
    UNION {{MkRows(sts, [i \in 1..(n - 1) |-> 30], end) : sts \in [1..n -> DirtyStates]} :
           n \in 1..MaxDirty}
    \cup {MkRows(<<PH_840, PH_840, bad, PH_800, PH_800, PH_800>>,
                 [i \in 1..5 |-> 30], end) : bad \in DirtyStates}

\* the windows of the first cycle of a fresh sensor
FirstRows(end) == ShortRows(end) \cup WaveRows(end) \cup DirtyRows(end)

\* the windows of a cycle in a sequence of cycles
CycleRows(end) ==
    {MkRows([i \in 1..n |-> st], [i \in 1..(n - 1) |-> 30], end) :
        n \in {0, 4, 5}, st \in {PH_840}}
    \cup WaveRowsOf(end, {PH_840}, {PH_800, PH_794}, MaxWaves - 1)
    \cup DirtyRows(end)

-----------------------------------------------------------------------------
(* Specifications of the sensor *)

\* the two entities binary_sensor.async_setup_entry creates
Entities == {"high", "low"}

Workers == 1..2

\* PHControlSensor.__init__, and the environment before the first cycle
SensorInit(configs) ==
    /\ cfg \in configs
    /\ state = NONE
    /\ state_history = <<>>
    /\ peaks = <<>>
    /\ troughs = <<>>
    /\ oscillations = <<>>
    /\ above_setpoint = <<>>
    /\ attributes = <<>>
    /\ last_update = <<>>
    /\ clock = 0
    /\ obs = [kind |-> "none", now |-> 0]
    /\ jobs = [w \in Workers |-> [pc |-> "idle", history_list |-> <<>>]]
    /\ before = "none"

\* PHControlBinarySensor.__init__ of both entities, the source in one of `sources`
BinaryInit(sources) ==
    /\ current_ph = [e \in Entities |-> <<>>]
    /\ added = [e \in Entities |-> FALSE]
    /\ source \in sources
    /\ event = <<>>
    /\ pending = {}
    /\ bs_raised = NONE
    /\ last_numeric = [e \in Entities |-> <<>>]

Init == SensorInit(Configs) /\ BinaryInit({<<>>})

\* async_update, one pass at a time: update_data runs to completion
Cycle ==
    /\ \E rows \in CycleRows(clock), elapsed \in Elapsed :
          /\ clock + elapsed <= MaxClock
          /\ UpdateData(rows, elapsed)
    /\ UNCHANGED <<jobs, before, bin_vars>>

CycleError == UpdateDataError /\ UNCHANGED <<jobs, before, bin_vars>>

Next == Cycle \/ CycleError

\* any sequence of analysis cycles of one sensor
Spec == Init /\ [][Next]_vars

\* the first analysis cycle of a freshly constructed sensor, over every window
FirstCycle ==
    /\ obs.kind = "none"
    /\ \E rows \in FirstRows(clock), elapsed \in Elapsed : UpdateData(rows, elapsed)
    /\ UNCHANGED <<jobs, before, bin_vars>>

SpecFirst == Init /\ [][FirstCycle]_vars

\* the windows of a cycle in SpecResume
ResumeRows(end) ==
    {MkRows([i \in 1..n |-> st], [i \in 1..(n - 1) |-> 30], end) :
        n \in {0, 4, 5}, st \in {PH_840}}
    \cup WaveRowsOf(end, {PH_842}, {PH_794}, MaxWaves - 1)

\* async_update, one pass at a time, remembering what the cycle before did
ResumeCycle ==
    /\ \E rows \in ResumeRows(clock), elapsed \in Elapsed :
          /\ clock + elapsed <= MaxClock
          /\ UpdateData(rows, elapsed)
    /\ before' = obs.kind
    /\ UNCHANGED <<jobs, bin_vars>>

ResumeError ==
    /\ UpdateDataError
    /\ before' = obs.kind
    /\ UNCHANGED <<jobs, bin_vars>>

NextResume == ResumeCycle \/ ResumeError

\* any sequence of analysed, empty and failed cycles of one sensor
SpecResume == Init /\ [][NextResume]_vars

-----------------------------------------------------------------------------
(* Overlapping analysis passes.  async_update hands update_data to the       *)
(* executor (hass.async_add_executor_job) and nothing in the sensor keeps a  *)
(* second call from doing so while the first job runs.  A job is modelled at *)
(* the grain of the calls update_data makes: the query, the assignment of    *)
(* self._state_history, _detect_oscillations, _calculate_metrics, and the    *)
(* final assignments.  Finer interleavings only add behaviours.              *)

ConcRows(end) ==
    {MkRows([i \in 1..n |-> PH_840], [i \in 1..(n - 1) |-> 30], end) : n \in {0, 5}}
    \cup WaveRowsOf(end, {PH_840}, {PH_800}, 1)

\* async_update: submit update_data to the executor
AsyncUpdate(w) ==
    /\ jobs[w].pc = "idle"
    /\ jobs' = [jobs EXCEPT ![w].pc = "query"]
    /\ UNCHANGED <<sensor_vars, before, bin_vars>>

\* update_data, lines 131-152: the recorder query into the local history_list
JobQuery(w) ==
    /\ jobs[w].pc = "query"
    /\ \E rows \in ConcRows(clock) :
          /\ IsQueryResult(rows, clock, cfg)
          /\ jobs' = [jobs EXCEPT ![w] = [pc |-> "store", history_list |-> HistoryList(rows)]]
    /\ UNCHANGED <<sensor_vars, before, bin_vars>>

\* update_data, lines 154-160: the empty-window return or self._state_history
JobStore(w) ==
    /\ jobs[w].pc = "store"
    /\ IF jobs[w].history_list = <<>>
       THEN /\ state' = "unknown"
            /\ obs' = [kind |-> "empty", now |-> clock]
            /\ jobs' = [jobs EXCEPT ![w] = [pc |-> "idle", history_list |-> <<>>]]
            /\ UNCHANGED state_history
       ELSE /\ state_history' = jobs[w].history_list
            /\ jobs' = [jobs EXCEPT ![w].pc = "detect"]
            /\ UNCHANGED <<state, obs>>
    /\ UNCHANGED <<cfg, peaks, troughs, oscillations, above_setpoint, attributes,
                   last_update, clock, before, bin_vars>>

\* update_data, line 163: self._detect_oscillations()
JobDetect(w) ==
    /\ jobs[w].pc = "detect"
    /\ LET det == DetectOscillations(state_history, above_setpoint, cfg)
       IN  /\ peaks' = det.peaks
           /\ troughs' = det.troughs
           /\ oscillations' = det.oscillations
           /\ above_setpoint' = det.above_setpoint
    /\ jobs' = [jobs EXCEPT ![w].pc = "metrics"]
    /\ UNCHANGED <<cfg, state, state_history, attributes, last_update, clock, obs, before, bin_vars>>

\* update_data, line 164: self._calculate_metrics()
JobMetrics(w) ==
    /\ jobs[w].pc = "metrics"
    /\ attributes' = CalculateMetrics(oscillations, clock)
    /\ jobs' = [jobs EXCEPT ![w].pc = "finish"]
    /\ UNCHANGED <<cfg, state, state_history, peaks, troughs, oscillations,
                   above_setpoint, last_update, clock, obs, before, bin_vars>>

\* update_data, lines 167-169: the state and the time of the update
JobFinish(w) ==
    /\ jobs[w].pc = "finish"
    /\ state' = DictGet(attributes, ATTR_TREND, "unknown")
    /\ last_update' = <<clock>>
    /\ obs' = [kind |-> "analysed", now |-> clock]
    /\ jobs' = [jobs EXCEPT ![w] = [pc |-> "idle", history_list |-> <<>>]]
    /\ UNCHANGED <<cfg, state_history, peaks, troughs, oscillations, above_setpoint,
                   attributes, clock, before, bin_vars>>

NextConc ==
    \E w \in Workers :
        \/ AsyncUpdate(w)
        \/ JobQuery(w)
        \/ JobStore(w)
        \/ JobDetect(w)
        \/ JobMetrics(w)
        \/ JobFinish(w)

InitConc ==
    /\ SensorInit({Config(DEFAULT_TIME_WINDOW, DEFAULT_MIN_AMPLITUDE, DEFAULT_MIN_DURATION)})
    /\ BinaryInit({<<>>})

\* analysis passes as the executor may run them
SpecConc == InitConc /\ [][NextConc]_vars

InFlight == {w \in Workers : jobs[w].pc # "idle"}

\* C10: at most one analysis pass (update_data in the worker) is in flight at
\* any time, so two passes never overlap in reading or mutating the sensor's
\* history, peaks, troughs, oscillations and attributes.
C10_OnePassInFlight == Cardinality(InFlight) <= 1

-----------------------------------------------------------------------------
(* PHControlBinarySensor: the two entities of one source.  Home Assistant    *)
(* runs the @callback listeners of a state change event one after the other  *)
(* on the event loop, before anything else.                                  *)

MaxStr == 2      \* longest state string of the exhaustive family

Alphabet == {"8", ".", "-", "x"}

\* every string of up to MaxStr characters, the two reserved states, and
\* readings around the setpoint
SourceStates ==
    UNION {[1..n -> Alphabet] : n \in 0..MaxStr}
    \cup {STATE_UNKNOWN, STATE_UNAVAILABLE, PH_800, PH_820, PH_840}

\* None, or a State with the given state string
States == {<<>>} \cup {<<st>> : st \in SourceStates}

\* PHControlBinarySensor.is_on
IsOn(e) ==
    IF current_ph[e] = <<>> THEN FALSE
    ELSE IF e = "high"
         THEN current_ph[e][1] > DEFAULT_SETPOINT + DEFAULT_NOISE_FILTER
         ELSE current_ph[e][1] < DEFAULT_SETPOINT - DEFAULT_NOISE_FILTER

\* The reading a State carries, if it is one: stated on the strings
\* themselves, for the strings of SourceStates.
NumericReading(st) ==
    LET sign == IF st # <<>> /\ st[1] = "-" THEN 0 - 1 ELSE 1
        body == IF st # <<>> /\ st[1] = "-" THEN Tail(st) ELSE st
    IN  CASE body = <<"8">> -> <<sign * 800>>
          [] body = <<"8", ".">> -> <<sign * 800>>
          [] body = <<".", "8">> -> <<sign * 80>>
          [] body = <<"8", "8">> -> <<sign * 8800>>
          [] body = <<"8", "8", "8">> -> <<sign * 88800>>
          [] body = <<"8", "8", ".">> -> <<sign * 8800>>
          [] body = <<"8", ".", "8">> -> <<sign * 880>>
          [] body = <<".", "8", "8">> -> <<sign * 88>>
          [] body = PH_800 -> <<sign * 800>>
          [] body = PH_820 -> <<sign * 820>>
          [] body = PH_840 -> <<sign * 840>>
          [] OTHER -> <<>>

ReadingOf(new_state) == IF new_state = <<>> THEN <<>> ELSE NumericReading(new_state[1])

\* the latest numeric reading entity e has been given, after it is given new_state
Given(e, new_state) ==
    [last_numeric EXCEPT ![e] = IF ReadingOf(new_state) = <<>> THEN @
                                ELSE ReadingOf(new_state)]

\* the source entity changes state (or is removed): the event is dispatched to
\* the registered listeners
SourceChanged ==
    /\ pending = {}
    /\ \E new_state \in States :
          /\ new_state # source
          /\ source' = new_state
          /\ event' = new_state
    /\ pending' = {e \in Entities : added[e]}
    /\ bs_raised' = NONE
    /\ UNCHANGED <<current_ph, added, last_numeric, sensor_vars, jobs, before>>

\* PHControlBinarySensor._async_source_changed, with _update_state
AsyncSourceChanged(e) ==
    /\ e \in pending
    /\ pending' = pending \ {e}
    /\ last_numeric' = Given(e, event)
    /\ IF event = <<>> \/ event[1] \in {STATE_UNAVAILABLE, STATE_UNKNOWN}
       THEN UNCHANGED current_ph /\ bs_raised' = NONE
       ELSE LET value == Float(event[1])
            IN  IF value.ok
                THEN current_ph' = [current_ph EXCEPT ![e] = <<value.v>>] /\ bs_raised' = NONE
                ELSE \* except (ValueError, TypeError): a warning
                     UNCHANGED current_ph /\ bs_raised' = NONE
    /\ UNCHANGED <<added, source, event, sensor_vars, jobs, before>>

\* PHControlBinarySensor.async_added_to_hass, with _update_state
AsyncAddedToHass(e) ==
    /\ ~added[e]
    /\ pending = {}
    /\ added' = [added EXCEPT ![e] = TRUE]
    /\ last_numeric' = Given(e, source)
    /\ IF source # <<>> /\ source[1] \notin {STATE_UNKNOWN, STATE_UNAVAILABLE}
       THEN LET value == Float(source[1])
            IN  IF value.ok
                THEN current_ph' = [current_ph EXCEPT ![e] = <<value.v>>] /\ bs_raised' = NONE
                ELSE \* float() raises ValueError outside any try
                     UNCHANGED current_ph /\ bs_raised' = "async_added_to_hass"
       ELSE UNCHANGED current_ph /\ bs_raised' = NONE
    /\ UNCHANGED <<source, event, pending, sensor_vars, jobs, before>>

NextBin ==
    \/ SourceChanged
    \/ \E e \in Entities : AsyncSourceChanged(e)
    \/ \E e \in Entities : AsyncAddedToHass(e)

InitBin ==
    /\ SensorInit({Config(DEFAULT_TIME_WINDOW, DEFAULT_MIN_AMPLITUDE, DEFAULT_MIN_DURATION)})
    /\ BinaryInit(States)

\* the binary sensors of one source and the events of that source
SpecBin == InitBin /\ [][NextBin]_vars

\* every listener that has handled the last event tracks the latest numeric
\* reading it was given, and its handler let no exception out
HandlerSkips ==
    /\ bs_raised # "_async_source_changed"
    /\ \A e \in Entities : current_ph[e] = last_numeric[e]

\* C9: a missing, unavailable / unknown or unparseable reading is skipped:
\* the tracked current pH (and so is_on) stays as it was, it equals the latest
\* numeric reading after any sequence of events, and no exception propagates,
\* from the subscription handler and from the reading taken in
\* async_added_to_hass alike.
C9_NonNumericSkipped ==
    /\ HandlerSkips
    /\ bs_raised = NONE

\* a listener holds a reading and has just skipped an unparseable event
C9_HandlerSkipped ==
    \E e \in Entities :
        /\ added[e]
        /\ e \notin pending
        /\ event # <<>>
        /\ ReadingOf(event) = <<>>
        /\ current_ph[e] # <<>>

-----------------------------------------------------------------------------
(* Properties of the analysis cycle *)

AttrIs(key, value) == key \in DOMAIN attributes /\ attributes[key] = value

\* C1: whenever a cycle finds an empty window, the sensor afterwards reports
\* state "unknown" with average_amplitude = 0 and max_amplitude = 0, whatever
\* the earlier cycles computed.
C1_EmptyWindowResetsMetrics ==
    obs.kind = "empty" =>
        /\ state = "unknown"
        /\ AttrIs(ATTR_AVERAGE_AMPLITUDE, 0)
        /\ AttrIs(ATTR_MAX_AMPLITUDE, 0)

Abs(x) == IF x < 0 THEN 0 - x ELSE x

AllDeltasBelowNoise(hist, c) ==
    \A i \in 1..(Len(hist) - 1) : Abs(hist[i + 1][2] - hist[i][2]) < c.noise_filter

\* C2: for a window in which every difference between consecutive readings is
\* smaller in absolute value than noise_filter, the windowed detector
\* registers no peak, no trough and no oscillation.
C2_NoiseRegistersNothing ==
    (obs.kind = "analysed" /\ AllDeltasBelowNoise(state_history, cfg)) =>
        (peaks = <<>> /\ troughs = <<>> /\ oscillations = <<>>)

\* C3: after any analysis cycle, every oscillation in the oscillation list has
\* amplitude, its peak value minus its trough value, >= min_amplitude.
C3_AmplitudeAtLeastMin ==
    \A i \in DOMAIN oscillations :
        /\ oscillations[i].amplitude
              = oscillations[i].peak_value - oscillations[i].trough_value
        /\ oscillations[i].amplitude >= cfg.min_amplitude

\* a cycle left oscillations behind and a later cycle found an empty window
C3_Witness ==
    /\ obs.kind = "empty"
    /\ Len(oscillations) >= 2
    /\ \E i \in DOMAIN oscillations : oscillations[i].amplitude < 3 * cfg.min_amplitude + 20

\* an empty-window cycle after a cycle that found oscillations: the earlier
\* metrics are still reported
C1_StaleMetricsRetained ==
    /\ obs.kind = "empty"
    /\ state = "unknown"
    /\ ATTR_AVERAGE_AMPLITUDE \in DOMAIN attributes
    /\ attributes[ATTR_AVERAGE_AMPLITUDE] > 0
    /\ attributes[ATTR_MAX_AMPLITUDE] > 0

-----------------------------------------------------------------------------
(* Runs of a window, stated on the window itself *)

\* the maximal runs <<i, j>> of readings above (side = TRUE) or not above
\* (side = FALSE) the setpoint
Runs(hist, side, c) ==
    {r \in (DOMAIN hist) \X (DOMAIN hist) :
        /\ r[1] <= r[2]
        /\ \A k \in r[1]..r[2] : (hist[k][2] > c.setpoint) = side
        /\ r[1] = 1 \/ (hist[r[1] - 1][2] > c.setpoint) # side
        /\ r[2] = Len(hist) \/ (hist[r[2] + 1][2] > c.setpoint) # side}

RunValues(hist, r) == {hist[k][2] : k \in r[1]..r[2]}
RunMax(hist, r) == CHOOSE v \in RunValues(hist, r) : \A w \in RunValues(hist, r) : w <= v
RunMin(hist, r) == CHOOSE v \in RunValues(hist, r) : \A w \in RunValues(hist, r) : v <= w
RunDuration(hist, r) == hist[r[2]][1] - hist[r[1]][1]

\* the run's extreme reading (value v) is in the list xs
RunRegistered(hist, r, v, xs) ==
    \E k \in r[1]..r[2] : hist[k][2] = v /\ \E m \in DOMAIN xs : xs[m] = hist[k]

PeakRunQualifies(hist, r, c) ==
    /\ RunMax(hist, r) - c.setpoint > c.min_amplitude
    /\ RunDuration(hist, r) >= c.min_duration

TroughRunQualifies(hist, r, c) ==
    /\ c.setpoint - RunMin(hist, r) > c.min_amplitude
    /\ RunDuration(hist, r) >= c.min_duration

\* peaks and troughs are exactly the extremes of the qualifying runs among
\* the runs of at least minRun readings
ExtremaAreQualifyingRuns(hist, c, minRun) ==
    LET up   == {r \in Runs(hist, TRUE, c) : r[2] - r[1] + 1 >= minRun}
        down == {r \in Runs(hist, FALSE, c) : r[2] - r[1] + 1 >= minRun}
    IN  /\ \A r \in up :
              RunRegistered(hist, r, RunMax(hist, r), peaks) <=> PeakRunQualifies(hist, r, c)
        /\ \A r \in down :
              RunRegistered(hist, r, RunMin(hist, r), troughs) <=> TroughRunQualifies(hist, r, c)
        /\ Len(peaks) = Cardinality({r \in up : PeakRunQualifies(hist, r, c)})
        /\ Len(troughs) = Cardinality({r \in down : TroughRunQualifies(hist, r, c)})

\* C4 as claimed: for every window and every maximal run above the setpoint, a
\* peak (the run's maximum) is registered iff maximum - setpoint > min_amplitude
\* and the run's duration >= min_duration, and symmetrically a trough for a run
\* below; single-reading runs and windows of fewer than 5 readings included.
C4_Original ==
    obs.kind = "analysed" => ExtremaAreQualifyingRuns(state_history, cfg, 1)

\* C4 amended: the rule holds for windows of at least 5 readings and runs of at
\* least 2 readings; a run of a single reading registers nothing and a window
\* of fewer than 5 readings registers no peak and no trough.
C4_PeakTroughRule ==
    obs.kind = "analysed" =>
        IF Len(state_history) >= 5
        THEN ExtremaAreQualifyingRuns(state_history, cfg, 2)
        ELSE peaks = <<>> /\ troughs = <<>>

\* a window of at least 5 readings with a run of two readings registered as
\* a peak and a single reading that meets both thresholds and is skipped
C4_Witness ==
    /\ obs.kind = "analysed"
    /\ Len(state_history) >= 5
    /\ \E r \in Runs(state_history, TRUE, cfg) :
          /\ r[2] > r[1]
          /\ RunRegistered(state_history, r, RunMax(state_history, r), peaks)
    /\ \E r \in Runs(state_history, TRUE, cfg) :
          /\ r[1] = r[2]
          /\ PeakRunQualifies(state_history, r, cfg)
          /\ ~RunRegistered(state_history, r, RunMax(state_history, r), peaks)

-----------------------------------------------------------------------------
(* Matching, stated on the registered peaks and troughs *)

LaterTroughs(p) == {m \in DOMAIN troughs : troughs[m][1] > p[1]}

\* the earliest trough after peak p (there is one)
NextTrough(p) ==
    troughs[CHOOSE m \in LaterTroughs(p) :
               \A k \in LaterTroughs(p) : troughs[m][1] <= troughs[k][1]]

Swings(p) ==
    LaterTroughs(p) # {} /\ p[2] - NextTrough(p)[2] > cfg.min_amplitude

\* C5: each registered peak, in time order, is paired with the earliest
\* registered trough strictly later than it; the pair is an oscillation exactly
\* when peak value - trough value > min_amplitude, with that amplitude and
\* duration trough time - peak time > 0; a peak with no later trough yields no
\* oscillation; the oscillation list is ordered by peak time.
C5_MatchEarliestLaterTrough ==
    obs.kind = "analysed" =>
        /\ \A i \in DOMAIN oscillations :
              \E k \in DOMAIN peaks :
                  /\ Swings(peaks[k])
                  /\ oscillations[i].peak_time = peaks[k][1]
                  /\ oscillations[i].peak_value = peaks[k][2]
                  /\ oscillations[i].trough_time = NextTrough(peaks[k])[1]
                  /\ oscillations[i].trough_value = NextTrough(peaks[k])[2]
                  /\ oscillations[i].amplitude = peaks[k][2] - NextTrough(peaks[k])[2]
                  /\ oscillations[i].duration = NextTrough(peaks[k])[1] - peaks[k][1]
                  /\ oscillations[i].duration > 0
        /\ \A k \in DOMAIN peaks :
              Swings(peaks[k]) <=>
                  \E i \in DOMAIN oscillations : oscillations[i].peak_time = peaks[k][1]
        /\ Len(oscillations) = Cardinality({k \in DOMAIN peaks : Swings(peaks[k])})
        /\ \A i \in 1..(Len(oscillations) - 1) :
              oscillations[i].peak_time < oscillations[i + 1].peak_time

\* two oscillations with different troughs: the second peak has an earlier and
\* a later trough, the first peak two later ones
C5_Witness ==
    /\ obs.kind = "analysed"
    /\ Len(oscillations) >= 2
    /\ oscillations[1].trough_time < oscillations[2].peak_time
    /\ oscillations[1].trough_value # oscillations[2].trough_value

-----------------------------------------------------------------------------
(* Metrics, stated on the oscillation list and the time of the metrics *)

\* amplitudes of the oscillations whose peak lies within 24 hours of `now`
RECURSIVE HorizonAmplitudes(_, _)
HorizonAmplitudes(oscs, now) ==
    IF oscs = <<>> THEN <<>>
    ELSE (IF now - oscs[1].peak_time <= 86400 THEN <<oscs[1].amplitude>> ELSE <<>>)
         \o HorizonAmplitudes(Tail(oscs), now)

RECURSIVE Sum(_)
Sum(xs) == IF xs = <<>> THEN 0 ELSE xs[1] + Sum(Tail(xs))

\* The classification of an amplitude list of length >= 2 with positive
\* amplitudes: with a = first_avg and b = second_avg, percent_change > k is
\* 100 * (b - a) > k * a, i.e. 100 * b > (100 + k) * a; the averages are sums
\* over lengths, multiplied out.
ClaimedTrend(amps) ==
    LET h  == Len(amps) \div 2
        sa == Sum(SubSeq(amps, 1, h))
        sb == Sum(SubSeq(amps, h + 1, Len(amps)))
        na == h
        nb == Len(amps) - h
        Above(k) == IF sa = 0 THEN 0 > k ELSE 100 * sb * na > (100 + k) * sa * nb
        Below(k) == IF sa = 0 THEN 0 < k ELSE 100 * sb * na < (100 + k) * sa * nb
    IN  CASE Above(15) -> <<"rapidly_increasing", "low">>
          [] ~Above(15) /\ Above(5) -> <<"increasing", "decreasing">>
          [] ~Above(5) /\ Below(0 - 5) -> <<"decreasing", "good">>
          [] OTHER -> <<"stable", "normal">>

\* oscillations with the given amplitudes, one every 10 minutes
ExampleOscillations(amps) ==
    [i \in DOMAIN amps |->
        [peak_time |-> 600 * i, peak_value |-> DEFAULT_SETPOINT + amps[i],
         trough_time |-> 600 * i + 300, trough_value |-> DEFAULT_SETPOINT,
         amplitude |-> amps[i], duration |-> 300]]

\* C6: with at least 2 oscillations in the reporting horizon, the reported
\* trend and status are the classification of their ordered amplitude list
\* (split at len // 2, percent change of the averages, thresholds 15, 5, -5 in
\* that order); amplitudes [1,1,1,3,3,3] give rapidly_increasing / low.
C6_TrendFromAmplitudes ==
    /\ (obs.kind = "analysed" /\ Len(HorizonAmplitudes(oscillations, obs.now)) >= 2) =>
          LET claimed == ClaimedTrend(HorizonAmplitudes(oscillations, obs.now))
          IN  /\ AttrIs(ATTR_TREND, claimed[1])
              /\ AttrIs(ATTR_STATUS, claimed[2])
              /\ state = claimed[1]
    /\ LET attrs == CalculateMetrics(
                        ExampleOscillations(<<100, 100, 100, 300, 300, 300>>), 3600)
       IN  attrs[ATTR_TREND] = "rapidly_increasing" /\ attrs[ATTR_STATUS] = "low"

\* three oscillations in the horizon whose amplitudes rise by exactly 15 %
\* from the first to the average of the other two
C6_Witness ==
    /\ obs.kind = "analysed"
    /\ HorizonAmplitudes(oscillations, obs.now) = <<40, 46, 46>>
    /\ state = "increasing"

\* C7: after a cycle over a non-empty window, fewer than 2 oscillations in the
\* 24-hour horizon give trend = unknown and status = unknown; none in it gives
\* average, max and last amplitude 0 and oscillation count 0.
C7_FewOscillationsUnknown ==
    obs.kind = "analysed" =>
        LET n == Len(HorizonAmplitudes(oscillations, obs.now))
        IN  /\ n < 2 => AttrIs(ATTR_TREND, "unknown") /\ AttrIs(ATTR_STATUS, "unknown")
            /\ n = 0 => /\ AttrIs(ATTR_AVERAGE_AMPLITUDE, 0)
                        /\ AttrIs(ATTR_MAX_AMPLITUDE, 0)
                        /\ AttrIs(ATTR_LAST_AMPLITUDE, 0)
                        /\ AttrIs(ATTR_OSCILLATIONS, 0)

\* two oscillations found, only one of them inside the horizon
C7_Witness ==
    /\ obs.kind = "analysed"
    /\ Len(oscillations) = 2
    /\ Len(HorizonAmplitudes(oscillations, obs.now)) = 1
    /\ state = "unknown"
    /\ attributes[ATTR_OSCILLATIONS] = 1

DerivedAttributes ==
    {ATTR_OSCILLATIONS, ATTR_AVERAGE_AMPLITUDE, ATTR_MAX_AMPLITUDE,
     ATTR_LAST_AMPLITUDE, ATTR_TREND, ATTR_STATUS, ATTR_LAST_PEAK, ATTR_LAST_TROUGH}

\* C8: in every reachable state every derived attribute (oscillation count,
\* average / max / last amplitude, trend, status, last peak and last trough
\* timestamps) is present among the reported attributes.
C8_StableAttributeShape == DerivedAttributes \subseteq DOMAIN attributes

\* a cycle over a non-empty window without oscillations reports no last peak
\* and no last trough
C8_NoOscillationsNoTimestamps ==
    /\ obs.kind = "analysed"
    /\ DOMAIN attributes = DerivedAttributes \ {ATTR_LAST_PEAK, ATTR_LAST_TROUGH}

-----------------------------------------------------------------------------
(* C11: a cycle over a non-empty window is recomputed from scratch *)

\* what the fields are after one cycle of a freshly constructed sensor over
\* the history hist, with _calculate_metrics reading the time now
FreshCycle(hist, c, now) ==
    LET det   == DetectFrom(FreshSensor, hist, c)
        attrs == CalculateMetrics(det.oscillations, now)
    IN  [peaks |-> det.peaks, troughs |-> det.troughs,
         oscillations |-> det.oscillations, attributes |-> attrs,
         state |-> DictGet(attrs, ATTR_TREND, "unknown")]

\* C11: after every analysis cycle over a non-empty window, whatever cycles
\* came before it (analysed, empty or failed), the peaks, troughs,
\* oscillations, attributes and state are those a freshly constructed sensor
\* produces from the same window, configuration and time.
C11_RecomputedFromScratch ==
    obs.kind = "analysed" =>
        LET fresh == FreshCycle(state_history, cfg, obs.now)
        IN  /\ peaks = fresh.peaks
            /\ troughs = fresh.troughs
            /\ oscillations = fresh.oscillations
            /\ attributes = fresh.attributes
            /\ state = fresh.state

\* a cycle that found an oscillation, right after a failed or an empty cycle
C11_Witness ==
    /\ obs.kind = "analysed"
    /\ before \in {"error", "empty"}
    /\ oscillations # <<>>
    /\ state # "unknown"

-----------------------------------------------------------------------------
(* C12: the segments handed to the processors partition the window *)

\* the calls of _process_peak_segment / _process_trough_segment made for hist
SegmentsHanded(hist, c) == SegmentPass(hist, <<>>, <<>>, c).handed

RECURSIVE Concat(_)
Concat(segs) == IF segs = <<>> THEN <<>> ELSE segs[1][2] \o Concat(Tail(segs))

\* C12: for every window of at least 5 readings, the segments handed to the
\* processors, in the order of the calls, concatenate to the window (every
\* reading in exactly one segment, time order kept, the trailing segment
\* included); no segment is empty; a segment goes to the peak processor iff
\* all its readings are strictly above the setpoint and to the trough
\* processor iff none is (a reading equal to the setpoint is below);
\* consecutive segments are on opposite sides.
C12_SegmentsPartitionWindow ==
    (obs.kind = "analysed" /\ Len(state_history) >= 5) =>
        LET segs == SegmentsHanded(state_history, cfg)
        IN  /\ Concat(segs) = state_history
            /\ \A k \in DOMAIN segs :
                   /\ segs[k][2] # <<>>
                   /\ \A j \in DOMAIN segs[k][2] :
                          segs[k][1] <=> (segs[k][2][j][2] > cfg.setpoint)
            /\ \A k \in 1..(Len(segs) - 1) : segs[k][1] # segs[k + 1][1]

\* a window with a reading equal to the setpoint inside a run below it, cut
\* into at least three segments, the last of a single reading
C12_Witness ==
    /\ obs.kind = "analysed"
    /\ Len(state_history) >= 5
    /\ LET segs == SegmentsHanded(state_history, cfg)
       IN  /\ Len(segs) >= 3
           /\ Len(segs[Len(segs)][2]) = 1
           /\ \E k \in DOMAIN segs : \E j \in DOMAIN segs[k][2] :
                  /\ segs[k][2][j][2] = cfg.setpoint
                  /\ Len(segs[k][2]) >= 2

-----------------------------------------------------------------------------
(* C13: each oscillation is one distinct peak-trough swing *)

\* the recorded oscillations whose trough is the registered trough t
OscillationsOfTrough(t) ==
    {k \in DOMAIN oscillations :
        oscillations[k].trough_time = t[1] /\ oscillations[k].trough_value = t[2]}

Min(a, b) == IF a <= b THEN a ELSE b

\* C13: after any analysis cycle no registered trough is the trough of more
\* than one recorded oscillation, and there are at most
\* min(number of peaks, number of troughs) oscillations.
C13_DistinctSwings ==
    /\ \A m \in DOMAIN troughs : Cardinality(OscillationsOfTrough(troughs[m])) <= 1
    /\ Len(oscillations) <= Min(Len(peaks), Len(troughs))

\* two peaks with no registered trough between them: both are paired with the
\* one trough after them, and there are more oscillations than troughs
C13_TroughSharedByTwoPeaks ==
    /\ obs.kind = "analysed"
    /\ Len(peaks) = 2
    /\ Len(troughs) = 1
    /\ Len(oscillations) = 2
    /\ Cardinality(OscillationsOfTrough(troughs[1])) = 2

-----------------------------------------------------------------------------
(* C14: the High pH and the Low pH binary sensor of one source *)

BothOn == IsOn("high") /\ IsOn("low")

\* once every registered listener has handled the last event, the two sensors
\* are not both on
ExclusiveWhenHandled == pending = {} => ~BothOn

\* C14: in every reachable state, the states between the two listeners
\* handling one event included, the High pH and the Low pH sensor are not
\* both on, and a sensor that has been given no numeric reading is off.
C14_NeverBothOn ==
    /\ ~BothOn
    /\ \A e \in Entities : last_numeric[e] = <<>> => ~IsOn(e)

\* one listener has handled the event and is on, the other has not yet and is
\* still on from the reading before
C14_BothOnBetweenListeners ==
    /\ BothOn
    /\ Cardinality(pending) = 1
    /\ \E e \in Entities : e \notin pending /\ current_ph[e] = ReadingOf(event)

====
